---- MODULE Spec2Model ----
(***************************************************************************)
(* get-port-please: src/get-port.ts                                        *)
(*                                                                         *)
(* The public operations getPort, getRandomPort, checkPort and waitForPort *)
(* as one state machine.  One step of the machine is what one async        *)
(* function does between two awaits: the answer of the pending _tryPort    *)
(* (or the expiry of the pending timer) followed by all the synchronous    *)
(* code up to the next await or to the return/throw.                       *)
(*                                                                         *)
(* The operating system is the set `occupied` of (port, host) pairs that   *)
(* cannot be bound.  process.env.PORT and process.env.HOST are unset.      *)
(* The helpers of ./_internal and ./unsafe-ports are not part of the       *)
(* sources at hand; they are modelled after their description.             *)
(***************************************************************************)
EXTENDS Integers, Sequences, FiniteSets, TLC

VARIABLES
    occupied,       \* (port, host) pairs on which a bind fails
    envChanges,     \* how many times the occupancy changed during the run
    pc,             \* "idle", "tryPort" (a probe is pending), "sleep", "done"
    op,             \* the public operation that was called
    userOptions,    \* getPort: _userOptions as passed by the caller
    options,        \* getPort: the merged options (lines 31-45)
    stage,          \* getPort: which stage issued the pending probe
    queue,          \* _findPort: the candidates not yet rejected (head = current)
    cp,             \* the frame of the running checkPort
    availablePort,  \* getPort: the local variable availablePort
    probes,         \* every _tryPort issued so far, in order, with its answer
    logs,           \* the messages _log printed
    result,         \* what the operation returned or threw
    wait,           \* the frame of waitForPort (sleeps counts the expired timers)
    calls,          \* concurrent getPort calls: the frame of each invocation
    held            \* (invocation, port, host): sockets bound by a probe, not yet closed

vars == <<occupied, envChanges, pc, op, userOptions, options, stage, queue, cp,
          availablePort, probes, logs, result, wait, calls, held>>

----------------------------------------------------------------------------
(* Bounds of the model *)

\* largest retry budget a caller of waitForPort passes
MaxRetries == 2
\* how often the occupancy of the awaited port may flip while waitForPort sleeps
MaxEnvChanges == 1

----------------------------------------------------------------------------
(* Program constants *)

DefaultPort == 3000
DefaultAlternativePortRange == <<3000, 3100>>
DefaultDelay == 500
DefaultRetries == 4
PrivilegedLimit == 1024

----------------------------------------------------------------------------
(* Values *)

\* the host `undefined`: the default interface of the operating system
Undefined == "undefined"
AnyInterface == "0.0.0.0"

\* `false` / `undefined` (a falsy result) and a bound port number
NotAvailable == [ok |-> FALSE, port |-> 0]
Bound(p) == [ok |-> TRUE, port |-> p]
\* JavaScript truthiness of  PortNumber | false | undefined
Truthy(v) == v.ok /\ v.port # 0

\* a host argument: a single address (possibly undefined) or a list
Single(h) == [list |-> FALSE, hosts |-> <<h>>]
List(hs) == [list |-> TRUE, hosts |-> hs]

NoCp == [port |-> 0, hosts |-> <<>>, list |-> FALSE, i |-> 0, verbose |-> FALSE]
NoWait == [port |-> 0, host |-> Undefined, given |-> <<0, 0>>, delay |-> 0,
           retries |-> 0, index |-> 0, sleeps |-> 0]
NoOptions == [port |-> 0, random |-> FALSE, ports |-> <<>>, portRange |-> <<>>,
              alternativePortRange |-> <<>>, verbose |-> FALSE, host |-> Undefined]
NoUserOptions == [hasPort |-> FALSE, port |-> 0, ports |-> <<>>, portRange |-> <<>>,
                  hasAlt |-> FALSE, alternativePortRange |-> <<>>,
                  random |-> "unset", host |-> Undefined, verbose |-> FALSE]
Pending == [kind |-> "pending", port |-> 0, error |-> "", tried |-> <<>>,
            retries |-> 0, delay |-> 0]
Returned(p) == [Pending EXCEPT !.kind = "port", !.port = p]
ReturnedFalse == [Pending EXCEPT !.kind = "false"]
ReturnedVoid == [Pending EXCEPT !.kind = "void"]
Thrown(msg) == [Pending EXCEPT !.kind = "error", !.error = msg]

Msg(text, p) == [msg |-> text, port |-> p]

----------------------------------------------------------------------------
(* The environment *)

\* ports the operating system hands out for a bind on port 0
EphemeralPorts == {49152, 49153}

\* the (port, host) pairs other processes may hold
\* (the default interface stays free: a list fails at the address 0.0.0.0)
OccUniverse == {2, 3, 4, 5, 3000, 49152} \X {AnyInterface}

----------------------------------------------------------------------------
(* ./unsafe-ports and ./_internal *)

\* the members of the deny-list among the ports the model uses
UnsafePorts == {1, 7}

isSafePort(port) == port \notin UnsafePorts

\* _tryPort(port, host): the answers a bind-and-close can give.  A bind on
\* port 0 gets any ephemeral port free on that host, or is refused.
_tryPort(port, host) ==
    IF port = 0
    THEN {Bound(q) : q \in {e \in EphemeralPorts : <<e, host>> \notin occupied}}
         \cup {NotAvailable}
    ELSE IF <<port, host>> \in occupied THEN {NotAvailable} ELSE {Bound(port)}

\* _getLocalHosts(additional): the given addresses (no further interface)
_getLocalHosts(additional) == additional

\* _validateHostname(hostname, public, verbose): a valid hostname is kept
_validateHostname(hostname) == hostname

Ascending(a, b) == [i \in 1..(b - a + 1) |-> a + i - 1]

Shuffles(S) ==
    {f \in [1..Cardinality(S) -> S] :
        \A i, j \in 1..Cardinality(S) : i # j => f[i] # f[j]}

\* _generateRange(range, random): the sequences it may produce
_generateRange(range, random) ==
    IF Len(range) = 0 THEN {<<>>}
    ELSE IF random THEN Shuffles(range[1]..range[2])
    ELSE {Ascending(range[1], range[2])}

----------------------------------------------------------------------------
(* checkPort, lines 137-166 *)

\* lines 142-144: the host set a call of checkPort probes
ResolveHost(host) ==
    IF ~host.list /\ host.hosts[1] = Undefined
    THEN List(_getLocalHosts(<<Undefined, AnyInterface>>))
    ELSE host

\* the frame of checkPort(port, host, verbose) at its first _tryPort
NewCheck(port, host, verbose) ==
    [port |-> port, hosts |-> ResolveHost(host).hosts,
     list |-> ResolveHost(host).list, i |-> 1, verbose |-> verbose]

\* a checkPort that keeps probing port 0 and returns it
CheckPortStepKeepsZero(c, r) ==
    IF ~c.list
    THEN [done |-> TRUE, value |-> r, cp |-> c, log |-> <<>>]
    ELSE IF ~r.ok
    THEN [done |-> TRUE, value |-> NotAvailable, cp |-> c, log |-> <<>>]
    ELSE IF c.i = Len(c.hosts)
    THEN [done |-> TRUE, value |-> Bound(c.port), cp |-> c, log |-> <<>>]
    ELSE [done |-> FALSE, value |-> NotAvailable,
          cp |-> [c EXCEPT !.i = c.i + 1], log |-> <<>>]

\* a checkPort that goes on to the next address after a failed bind
CheckPortStepSkipsFailure(c, r) ==
    IF ~c.list
    THEN [done |-> TRUE, value |-> r, cp |-> c, log |-> <<>>]
    ELSE LET port == IF c.port = 0 /\ r.ok /\ r.port # 0 THEN r.port ELSE c.port
         IN  IF c.i = Len(c.hosts)
             THEN [done |-> TRUE,
                   value |-> IF r.ok THEN Bound(port) ELSE NotAvailable,
                   cp |-> [c EXCEPT !.port = port], log |-> <<>>]
             ELSE [done |-> FALSE, value |-> NotAvailable,
                   cp |-> [c EXCEPT !.port = port, !.i = c.i + 1], log |-> <<>>]

\* a checkPort that is content with the first address of a list
CheckPortStepFirstAddress(c, r) ==
    IF ~c.list
    THEN [done |-> TRUE, value |-> r, cp |-> c, log |-> <<>>]
    ELSE IF ~r.ok
    THEN [done |-> TRUE, value |-> NotAvailable, cp |-> c, log |-> <<>>]
    ELSE [done |-> TRUE,
          value |-> Bound(IF c.port = 0 /\ r.port # 0 THEN r.port ELSE c.port),
          cp |-> c, log |-> <<>>]

\* lines 145-165: what checkPort does with the answer r of the pending
\* _tryPort: it returns `value` (done) or probes the next host; cp is its
\* frame afterwards
CheckPortStep(c, r) ==
    IF ~c.list
    THEN [done |-> TRUE, value |-> r, cp |-> c, log |-> <<>>]
    ELSE IF ~r.ok
    THEN [done |-> TRUE, value |-> NotAvailable, cp |-> c,
          log |-> IF c.port < PrivilegedLimit /\ c.verbose
                  THEN <<Msg("Unable to listen to the priviliged port", c.port)>>
                  ELSE <<>>]
    ELSE LET port == IF c.port = 0 /\ r.port # 0 THEN r.port ELSE c.port
         IN  IF c.i = Len(c.hosts)
             THEN [done |-> TRUE, value |-> Bound(port),
                   cp |-> [c EXCEPT !.port = port], log |-> <<>>]
             ELSE [done |-> FALSE, value |-> NotAvailable,
                   cp |-> [c EXCEPT !.port = port, !.i = c.i + 1], log |-> <<>>]

----------------------------------------------------------------------------
(* getPort, lines 22-108 *)

\* options whose alternative range defaults to 3000-3100 for every port
MergeOptionsAlwaysDefault(u) ==
    LET _port == IF u.hasPort THEN u.port ELSE DefaultPort
    IN  [port |-> _port,
         random |-> IF u.random = "unset" THEN _port = 0 ELSE u.random = "true",
         ports |-> u.ports,
         portRange |-> u.portRange,
         alternativePortRange |->
             IF u.hasAlt THEN u.alternativePortRange
             ELSE DefaultAlternativePortRange,
         verbose |-> u.verbose,
         host |-> _validateHostname(u.host)]

\* lines 29-45
MergeOptions(u) ==
    LET _port == IF u.hasPort THEN u.port ELSE DefaultPort
    IN  [port |-> _port,
         random |-> IF u.random = "unset" THEN _port = 0 ELSE u.random = "true",
         ports |-> u.ports,
         portRange |-> u.portRange,
         alternativePortRange |->
             IF u.hasAlt THEN u.alternativePortRange
             ELSE IF u.hasPort /\ u.port # 0 THEN <<>>
             ELSE DefaultAlternativePortRange,
         verbose |-> u.verbose,
         host |-> _validateHostname(u.host)]

\* a shortcut taken when a primary range is given instead of when none is
DirectRandomInverted(o) == o.random /\ Len(o.portRange) # 0

\* line 47
DirectRandom(o) == o.random /\ Len(o.portRange) = 0

\* a candidate list that puts the ports list before the requested port
CandidatesListFirst(o, range) ==
    (IF o.random THEN <<>> ELSE o.ports \o <<o.port>>) \o range

\* a candidate list that spreads the requested port twice
CandidatesPortTwice(o, range) ==
    (IF o.random THEN <<>> ELSE <<o.port, o.port>> \o o.ports) \o range

\* a candidate list that keeps the requested port and the ports list in
\* random mode
CandidatesAlwaysPort(o, range) == <<o.port>> \o o.ports \o range

\* lines 52-54: the candidates before the filter
Candidates(o, range) ==
    (IF o.random THEN <<>> ELSE <<o.port>> \o o.ports) \o range

\* lines 55-64: the filter
KeepPort(port) == port # 0 /\ isSafePort(port)

PortsToCheck(o, range) == SelectSeq(Candidates(o, range), KeepPort)

\* line 60: the messages of the filter
IgnoredLog(o, range) ==
    LET unsafe == SelectSeq(Candidates(o, range),
                            LAMBDA p : p # 0 /\ ~isSafePort(p))
    IN  IF o.verbose
        THEN [i \in 1..Len(unsafe) |-> Msg("Ignoring unsafe port", unsafe[i])]
        ELSE <<>>

\* line 70
RunAlternative(avail, o) ==
    ~Truthy(avail) /\ Len(o.alternativePortRange) > 0

\* line 72: the candidates of the fallback range
AlternativePorts(o) ==
    CHOOSE s \in _generateRange(o.alternativePortRange, FALSE) : TRUE

\* a cascade whose random stage forgets to look at availablePort
RunRandomAlways(avail, u) == u.random # "false"

\* line 84
RunRandom(avail, u) == ~Truthy(avail) /\ u.random # "false"

\* an error message that leaves out the requested port
TriedRangesOnly(o) ==
    (IF Len(o.portRange) > 0 THEN <<o.portRange>> ELSE <<>>)
    \o (IF Len(o.alternativePortRange) > 0 THEN <<o.alternativePortRange>> ELSE <<>>)

\* lines 93-99
TriedRanges(o) ==
    (IF o.port # 0 THEN <<<<o.port>>>> ELSE <<>>)
    \o (IF Len(o.portRange) > 0 THEN <<o.portRange>> ELSE <<>>)
    \o (IF Len(o.alternativePortRange) > 0 THEN <<o.alternativePortRange>> ELSE <<>>)

\* A configuration: the part of the state a step of getPort rewrites
Config(p, s, q, c, a, l, r) ==
    [pc |-> p, stage |-> s, queue |-> q, cp |-> c, availablePort |-> a,
     logs |-> l, result |-> r]

\* lines 91-107
Finish(avail, o, l) ==
    IF ~Truthy(avail)
    THEN Config("done", "none", <<>>, NoCp, avail, l,
                [Thrown("Unable to find find available port")
                    EXCEPT !.tried = TriedRanges(o)])
    ELSE Config("done", "none", <<>>, NoCp, avail, l, Returned(avail.port))

\* lines 83-85: enter the random stage, or go on to line 91
TryRandom(avail, o, u, l) ==
    IF RunRandom(avail, u)
    THEN Config("tryPort", "random", <<>>, NewCheck(0, Single(o.host), FALSE),
                avail, l, Pending)
    ELSE Finish(avail, o, l)

\* lines 75-80
AlternativeLog(avail, o) ==
    IF o.verbose THEN <<Msg("Using alternative port", avail.port)>> ELSE <<>>

\* lines 69-81: after the primary stage returned avail
AfterPrimary(avail, o, u, l) ==
    IF RunAlternative(avail, o)
    THEN IF Len(AlternativePorts(o)) = 0
         THEN TryRandom(NotAvailable, o, u, l \o AlternativeLog(NotAvailable, o))
         ELSE Config("tryPort", "alternative", AlternativePorts(o),
                     NewCheck(Head(AlternativePorts(o)), Single(o.host), FALSE),
                     avail, l, Pending)
    ELSE TryRandom(avail, o, u, l)

\* lines 71-81: after the fallback stage returned avail
AfterAlternative(avail, o, u, l) ==
    TryRandom(avail, o, u, l \o AlternativeLog(avail, o))

\* lines 110-118: getRandomPort with the value checkPort(0, host) returned
GetRandomPort(port) ==
    IF ~port.ok
    THEN Thrown("Unable to find any random port")
    ELSE Returned(port.port)

\* a random stage that asks again when no random port was found
AfterRandomRetry(port, o, l) ==
    IF GetRandomPort(port).kind = "error"
    THEN Config("tryPort", "random", <<>>, NewCheck(0, Single(o.host), FALSE),
                NotAvailable, l, Pending)
    ELSE Finish(port, o,
                l \o (IF Truthy(port) /\ o.verbose
                      THEN <<Msg("Using random port", port.port)>> ELSE <<>>))

\* lines 85-89, then 91-107
AfterRandom(port, o, l) ==
    IF GetRandomPort(port).kind = "error"
    THEN Config("done", "none", <<>>, NoCp, NotAvailable, l, GetRandomPort(port))
    ELSE Finish(port, o,
                l \o (IF Truthy(port) /\ o.verbose
                      THEN <<Msg("Using random port", port.port)>> ELSE <<>>))

\* lines 47-49
AfterDirect(port, l) ==
    Config("done", "none", <<>>, NoCp, NotAvailable, l, GetRandomPort(port))

\* line 67 / line 71: the stage's _findPort returned v
AfterStage(s, v, o, u, l) ==
    IF s = "primary" THEN AfterPrimary(v, o, u, l)
    ELSE AfterAlternative(v, o, u, l)

\* _findPort(ports, host): checkPort returned v for the head of the queue
FindPortStep(s, q, v, o, u, l) ==
    IF Truthy(v) THEN AfterStage(s, v, o, u, l)
    ELSE IF Len(q) = 1 THEN AfterStage(s, NotAvailable, o, u, l)
    ELSE Config("tryPort", s, Tail(q),
                NewCheck(Head(Tail(q)), Single(o.host), FALSE),
                availablePort, l, Pending)

\* lines 47-67: from the merged options to the first await
Enter(o, u, range) ==
    IF DirectRandom(o)
    THEN Config("tryPort", "direct", <<>>, NewCheck(0, Single(o.host), FALSE),
                NotAvailable, <<>>, Pending)
    ELSE IF Len(PortsToCheck(o, range)) = 0
    THEN AfterPrimary(NotAvailable, o, u, IgnoredLog(o, range))
    ELSE Config("tryPort", "primary", PortsToCheck(o, range),
                NewCheck(Head(PortsToCheck(o, range)), Single(o.host), FALSE),
                NotAvailable, IgnoredLog(o, range), Pending)

\* lines 146, 159, 165: checkPort returns a port number or false
CheckPortResult(v) == IF v.ok THEN Returned(v.port) ELSE ReturnedFalse

----------------------------------------------------------------------------
(* waitForPort, lines 120-135 *)

\* lines 124-126; an absent option is 0 here: `||` treats both alike.
\* `given` keeps options.delay and options.retries as the caller passed them
NewWait(port, host, delay, retries) ==
    [port |-> port, host |-> host, given |-> <<delay, retries>>,
     delay |-> IF delay # 0 THEN delay ELSE DefaultDelay,
     retries |-> IF retries # 0 THEN retries ELSE DefaultRetries,
     index |-> IF retries # 0 THEN retries ELSE DefaultRetries,
     sleeps |-> 0]

\* a loop that runs once more
LoopRunsOnceMore(index) == index >= 0

\* line 126: the loop test
LoopRuns(index) == index > 0

\* a waitForPort that returns when the port can be bound
PortIsFree(r) == r.ok

\* line 127
PortIsUp(r) == ~r.ok

\* lines 132-134
Timeout(w) ==
    [Thrown("Timeout waiting for port") EXCEPT
        !.port = w.port, !.retries = w.retries, !.delay = w.delay]

----------------------------------------------------------------------------
(* Inputs *)

\* checkPort
CheckPortInputs == {0, 1, 2}
CheckHostInputs ==
    {Single(Undefined), Single(AnyInterface), List(<<>>), List(<<AnyInterface>>),
     List(<<Undefined, AnyInterface>>), List(<<AnyInterface, Undefined>>)}

\* waitForPort: an option that is absent or 0 takes its default
WaitPortInputs == {2}
DelayInputs == {0, 10}
RetriesInputs == 0..MaxRetries

PortInputs == {0, 1, 2}
PortsInputs == {<<>>, <<3, 0, 1, 2>>}
PortRangeInputs == {<<>>, <<0, 3>>}
AlternativeInputs == {<<>>, <<4, 5>>, <<0, 1>>}
HostInputs == {Undefined, AnyInterface}

GetPortInputs ==
    {u \in [hasPort : BOOLEAN, port : PortInputs, ports : PortsInputs,
            portRange : PortRangeInputs, hasAlt : BOOLEAN,
            alternativePortRange : AlternativeInputs,
            random : {"unset", "true", "false"}, host : HostInputs,
            verbose : BOOLEAN] :
        /\ ~u.hasPort => u.port = 0
        /\ ~u.hasAlt => u.alternativePortRange = <<>>}

----------------------------------------------------------------------------
(* The state machine *)

Init ==
    /\ occupied \in SUBSET OccUniverse
    /\ envChanges = 0
    /\ pc = "idle"
    /\ op = "none"
    /\ userOptions = NoUserOptions
    /\ options = NoOptions
    /\ stage = "none"
    /\ queue = <<>>
    /\ cp = NoCp
    /\ availablePort = NotAvailable
    /\ probes = <<>>
    /\ logs = <<>>
    /\ result = Pending
    /\ wait = NoWait
    /\ calls = <<>>
    /\ held = {}

Install(c) ==
    /\ pc' = c.pc
    /\ stage' = c.stage
    /\ queue' = c.queue
    /\ cp' = c.cp
    /\ availablePort' = c.availablePort
    /\ logs' = c.logs
    /\ result' = c.result

\* the record of one _tryPort
Probe(s, port, host, r) ==
    [stage |-> s, port |-> port, host |-> host, ok |-> r.ok, bound |-> r.port]

\* getPort(_userOptions) up to its first await
CallGetPort ==
    /\ pc = "idle"
    /\ \E u \in GetPortInputs :
         \E range \in _generateRange(MergeOptions(u).portRange, MergeOptions(u).random) :
            /\ op' = "getPort"
            /\ userOptions' = u
            /\ options' = MergeOptions(u)
            /\ Install(Enter(MergeOptions(u), u, range))
    /\ UNCHANGED <<calls, held, occupied, envChanges, probes, wait>>

\* getPort: the pending _tryPort of a stage-2 or stage-3 checkPort answers
GetPortFindStep ==
    /\ pc = "tryPort"
    /\ op = "getPort"
    /\ stage \in {"primary", "alternative"}
    /\ \E r \in _tryPort(cp.port, cp.hosts[cp.i]) :
         LET c == CheckPortStep(cp, r)
         IN  /\ probes' = Append(probes, Probe(stage, cp.port, cp.hosts[cp.i], r))
             /\ IF c.done
                THEN Install(FindPortStep(stage, queue, c.value, options,
                                          userOptions, logs \o c.log))
                ELSE Install(Config("tryPort", stage, queue, c.cp, availablePort,
                                    logs \o c.log, Pending))
    /\ UNCHANGED <<calls, held, occupied, envChanges, op, userOptions, options, wait>>

\* getPort: the pending _tryPort of getRandomPort's checkPort(0, host) answers
GetPortRandomStep ==
    /\ pc = "tryPort"
    /\ op = "getPort"
    /\ stage \in {"random", "direct"}
    /\ \E r \in _tryPort(cp.port, cp.hosts[cp.i]) :
         LET c == CheckPortStep(cp, r)
         IN  /\ probes' = Append(probes, Probe(stage, cp.port, cp.hosts[cp.i], r))
             /\ IF ~c.done
                THEN Install(Config("tryPort", stage, queue, c.cp, availablePort,
                                    logs \o c.log, Pending))
                ELSE IF stage = "direct"
                THEN Install(AfterDirect(c.value, logs \o c.log))
                ELSE Install(AfterRandom(c.value, options, logs \o c.log))
    /\ UNCHANGED <<calls, held, occupied, envChanges, op, userOptions, options, wait>>

\* getRandomPort(host) up to its first await (lines 110-111)
CallGetRandomPort ==
    /\ pc = "idle"
    /\ \E h \in HostInputs :
         /\ op' = "getRandomPort"
         /\ Install(Config("tryPort", "direct", <<>>, NewCheck(0, Single(h), FALSE),
                           NotAvailable, <<>>, Pending))
    /\ UNCHANGED <<calls, held, occupied, envChanges, userOptions, options, probes, wait>>

\* getRandomPort: the pending _tryPort of its checkPort(0, host) answers
GetRandomPortStep ==
    /\ pc = "tryPort"
    /\ op = "getRandomPort"
    /\ \E r \in _tryPort(cp.port, cp.hosts[cp.i]) :
         LET c == CheckPortStep(cp, r)
         IN  /\ probes' = Append(probes, Probe(stage, cp.port, cp.hosts[cp.i], r))
             /\ IF ~c.done
                THEN Install(Config("tryPort", stage, queue, c.cp, availablePort,
                                    logs \o c.log, Pending))
                ELSE Install(AfterDirect(c.value, logs \o c.log))
    /\ UNCHANGED <<calls, held, occupied, envChanges, op, userOptions, options, wait>>

\* checkPort(port, host, verbose) up to its first await (lines 142-149), or
\* to its return when the host list is empty (line 165)
CallCheckPort ==
    /\ pc = "idle"
    /\ \E port \in CheckPortInputs, h \in CheckHostInputs, verbose \in BOOLEAN :
         /\ op' = "checkPort"
         /\ IF Len(ResolveHost(h).hosts) = 0
            THEN Install(Config("done", "check", <<>>, NewCheck(port, h, verbose),
                                NotAvailable, <<>>, CheckPortResult(Bound(port))))
            ELSE Install(Config("tryPort", "check", <<>>, NewCheck(port, h, verbose),
                                NotAvailable, <<>>, Pending))
    /\ UNCHANGED <<calls, held, occupied, envChanges, userOptions, options, probes, wait>>

\* checkPort: the pending _tryPort answers (lines 146, 149-165)
CheckPortTryStep ==
    /\ pc = "tryPort"
    /\ op = "checkPort"
    /\ \E r \in _tryPort(cp.port, cp.hosts[cp.i]) :
         LET c == CheckPortStep(cp, r)
         IN  /\ probes' = Append(probes, Probe(stage, cp.port, cp.hosts[cp.i], r))
             /\ IF ~c.done
                THEN Install(Config("tryPort", stage, queue, c.cp, availablePort,
                                    logs \o c.log, Pending))
                ELSE Install(Config("done", "check", <<>>, c.cp, NotAvailable,
                                    logs \o c.log, CheckPortResult(c.value)))
    /\ UNCHANGED <<calls, held, occupied, envChanges, op, userOptions, options, wait>>

\* waitForPort(port, options) up to its first await (lines 124-127)
CallWaitForPort ==
    /\ pc = "idle"
    /\ \E port \in WaitPortInputs, h \in HostInputs,
          delay \in DelayInputs, retries \in RetriesInputs :
         /\ op' = "waitForPort"
         /\ wait' = NewWait(port, h, delay, retries)
         /\ IF LoopRuns(NewWait(port, h, delay, retries).index)
            THEN pc' = "tryPort" /\ result' = Pending
            ELSE pc' = "done" /\ result' = Timeout(NewWait(port, h, delay, retries))
    /\ UNCHANGED <<calls, held, occupied, envChanges, userOptions, options, stage, queue, cp,
                   availablePort, probes, logs>>

\* waitForPort: the pending _tryPort answers (lines 127-130)
WaitForPortStep ==
    /\ pc = "tryPort"
    /\ op = "waitForPort"
    /\ \E r \in _tryPort(wait.port, wait.host) :
         /\ probes' = Append(probes, Probe("wait", wait.port, wait.host, r))
         /\ IF PortIsUp(r)
            THEN pc' = "done" /\ result' = ReturnedVoid
            ELSE pc' = "sleep" /\ result' = Pending
    /\ UNCHANGED <<calls, held, occupied, envChanges, op, userOptions, options, stage, queue, cp,
                   availablePort, logs, wait>>

\* waitForPort: the timer of line 130 fires; index-- and the loop test
\* (line 126), then the next _tryPort or the throw of lines 132-134
WaitForPortWake ==
    /\ pc = "sleep"
    /\ op = "waitForPort"
    /\ wait' = [wait EXCEPT !.index = wait.index - 1, !.sleeps = wait.sleeps + 1]
    /\ IF LoopRuns(wait.index - 1)
       THEN pc' = "tryPort" /\ result' = Pending
       ELSE pc' = "done" /\ result' = Timeout(wait)
    /\ UNCHANGED <<calls, held, occupied, envChanges, op, userOptions, options, stage, queue, cp,
                   availablePort, probes, logs>>

\* another process binds or releases the awaited port while waitForPort sleeps
EnvChange ==
    /\ pc = "sleep"
    /\ envChanges < MaxEnvChanges
    /\ envChanges' = envChanges + 1
    /\ occupied' = IF <<wait.port, wait.host>> \in occupied
                   THEN occupied \ {<<wait.port, wait.host>>}
                   ELSE occupied \cup {<<wait.port, wait.host>>}
    /\ UNCHANGED <<calls, held, pc, op, userOptions, options, stage, queue, cp, availablePort,
                   probes, logs, result, wait>>

Next ==
    \/ CallGetPort
    \/ GetPortFindStep
    \/ GetPortRandomStep
    \/ CallGetRandomPort
    \/ GetRandomPortStep
    \/ CallCheckPort
    \/ CheckPortTryStep
    \/ CallWaitForPort
    \/ WaitForPortStep
    \/ WaitForPortWake
    \/ EnvChange

Spec == Init /\ [][Next]_vars

----------------------------------------------------------------------------
(* Concurrent getPort calls.  A probe is a suspension point: _tryPort binds
   a socket and closes it in a later turn of the event loop, so the code of
   another invocation (or of another process) runs while the socket is
   bound. *)

Invocations == {1, 2}

\* the occupancy of a run of concurrent calls: ports taken by other programs
ConcOccUniverse == {2, 4} \X {AnyInterface}

\* the options the concurrent calls are made with
ConcInputs ==
    {u \in GetPortInputs :
        /\ u.hasPort /\ u.port = 2
        /\ u.portRange = <<>>
        /\ u.hasAlt /\ u.alternativePortRange \in {<<>>, <<4, 5>>}
        /\ u.random \in {"unset", "false"}
        /\ ~u.verbose}

\* an invocation that has not been called yet
NoCall ==
    [userOptions |-> NoUserOptions, options |-> NoOptions,
     cfg |-> Config("idle", "none", <<>>, NoCp, NotAvailable, <<>>, Pending),
     bound |-> NotAvailable]

\* getPort(u) up to its first await (lines 22-67)
NewCall(u, range) ==
    [userOptions |-> u, options |-> MergeOptions(u),
     cfg |-> Enter(MergeOptions(u), u, range), bound |-> NotAvailable]

\* the (port, host) pairs a bind fails on: taken by another program or bound
\* by a probe that has not closed its socket yet
Taken == occupied \cup {<<h[2], h[3]>> : h \in held}

\* the bind of _tryPort(port, host) while other probes are in flight
TryBind(port, host) ==
    IF port = 0
    THEN {Bound(q) : q \in {e \in EphemeralPorts : <<e, host>> \notin Taken}}
         \cup {NotAvailable}
    ELSE IF <<port, host>> \in Taken THEN {NotAvailable} ELSE {Bound(port)}

\* lines 66-107 and 145-165: what an invocation does with the answer r of
\* its pending _tryPort, up to its next await
Continue(c, o, u, r) ==
    LET k == CheckPortStep(c.cp, r)
    IN  IF ~k.done
        THEN Config("tryPort", c.stage, c.queue, k.cp, c.availablePort,
                    c.logs \o k.log, Pending)
        ELSE IF c.stage \in {"primary", "alternative"}
        THEN FindPortStep(c.stage, c.queue, k.value, o, u, c.logs \o k.log)
        ELSE IF c.stage = "direct"
        THEN AfterDirect(k.value, c.logs \o k.log)
        ELSE AfterRandom(k.value, o, c.logs \o k.log)

ConcInit ==
    /\ occupied \in SUBSET ConcOccUniverse
    /\ envChanges = 0
    /\ pc = "idle"
    /\ op = "none"
    /\ userOptions = NoUserOptions
    /\ options = NoOptions
    /\ stage = "none"
    /\ queue = <<>>
    /\ cp = NoCp
    /\ availablePort = NotAvailable
    /\ probes = <<>>
    /\ logs = <<>>
    /\ result = Pending
    /\ wait = NoWait
    /\ calls = [i \in Invocations |-> NoCall]
    /\ held = {}

\* the caller calls getPort once more (lines 22-67)
ConcCall ==
    /\ \E i \in Invocations, u \in ConcInputs :
         \E range \in _generateRange(MergeOptions(u).portRange, MergeOptions(u).random) :
            /\ calls[i].cfg.pc = "idle"
            /\ calls' = [calls EXCEPT ![i] = NewCall(u, range)]
    /\ UNCHANGED <<occupied, envChanges, pc, op, userOptions, options, stage, queue,
                   cp, availablePort, probes, logs, result, wait, held>>

\* the pending _tryPort of an invocation binds its socket, or fails to
ConcBind ==
    /\ \E i \in Invocations :
         /\ calls[i].cfg.pc = "tryPort"
         /\ \E r \in TryBind(calls[i].cfg.cp.port,
                             calls[i].cfg.cp.hosts[calls[i].cfg.cp.i]) :
              IF r.ok
              THEN /\ held' = held \cup
                                {<<i, r.port, calls[i].cfg.cp.hosts[calls[i].cfg.cp.i]>>}
                   /\ calls' = [calls EXCEPT ![i].cfg.pc = "close", ![i].bound = r]
              ELSE /\ held' = held
                   /\ calls' = [calls EXCEPT ![i].cfg =
                                   Continue(calls[i].cfg, calls[i].options,
                                            calls[i].userOptions, r)]
    /\ UNCHANGED <<occupied, envChanges, pc, op, userOptions, options, stage, queue,
                   cp, availablePort, probes, logs, result, wait>>

\* the socket of an invocation's probe is closed and _tryPort resolves
ConcClose ==
    /\ \E i \in Invocations :
         /\ calls[i].cfg.pc = "close"
         /\ held' = held \ {<<i, calls[i].bound.port,
                              calls[i].cfg.cp.hosts[calls[i].cfg.cp.i]>>}
         /\ calls' = [calls EXCEPT
                         ![i].cfg = Continue(calls[i].cfg, calls[i].options,
                                             calls[i].userOptions, calls[i].bound),
                         ![i].bound = NotAvailable]
    /\ UNCHANGED <<occupied, envChanges, pc, op, userOptions, options, stage, queue,
                   cp, availablePort, probes, logs, result, wait>>

ConcNext ==
    \/ ConcCall
    \/ ConcBind
    \/ ConcClose

ConcSpec == ConcInit /\ [][ConcNext]_vars

----------------------------------------------------------------------------
(* Vocabulary of the properties *)

\* the addresses one checkPort of the running getPort probes, in order
HostSet == ResolveHost(Single(options.host)).hosts

\* the position of a stage in the cascade
Rank(s) == CASE s = "primary" -> 1 [] s = "alternative" -> 2 [] OTHER -> 3

\* probe k completed a candidate: it bound on the last address of the host
\* set (the earlier addresses were bound before it, or it had not been issued)
Yields(k) == probes[k].ok /\ probes[k].host = HostSet[Len(HostSet)]

Done == pc = "done"

----------------------------------------------------------------------------
(* C1 *)

\* C1: in a getPort call the probes come in the order primary, alternative,
\* random; a stage probes only if no earlier stage yielded a port; a probe
\* that yields a port is the last probe of the call, the call ends with it
\* and returns the port it bound.
C1_StageOrder ==
    op = "getPort" =>
        /\ \A j, k \in 1..Len(probes) :
              j < k => /\ Rank(probes[j].stage) <= Rank(probes[k].stage)
                       /\ ~Yields(j)
        /\ \A k \in 1..Len(probes) :
              Yields(k) => Done /\ result = Returned(probes[k].bound)

\* C1 witness: all three stages probed, in a call that returned a port
C1_Witness ==
    /\ op = "getPort"
    /\ Done
    /\ result.kind = "port"
    /\ \A s \in {"primary", "alternative", "random"} :
          \E k \in 1..Len(probes) : probes[k].stage = s

----------------------------------------------------------------------------
(* C2 *)

\* C2: getPort and getRandomPort end by returning a port number in
\* [1, 65535] or by throwing; they never return 0 and never return false.
C2_ReturnedPortInRange ==
    (op \in {"getPort", "getRandomPort"} /\ Done) =>
        /\ result.kind \in {"port", "error"}
        /\ result.kind = "port" => result.port \in 1..65535

\* C2 witness: a call that bound port 0 on a list of two addresses and
\* returned the port the operating system assigned
C2_Witness ==
    /\ op \in {"getPort", "getRandomPort"}
    /\ Done
    /\ result.kind = "port"
    /\ Len(probes) = 2
    /\ probes[1].port = 0
    /\ probes[2].port = result.port

----------------------------------------------------------------------------
(* C3 *)

\* C3: no port of the unsafe-port deny-list is ever passed to the probe
\* during a getPort call, whatever the options.
C3_NoUnsafeProbe ==
    op = "getPort" => \A k \in 1..Len(probes) : isSafePort(probes[k].port)

----------------------------------------------------------------------------
(* C4 *)

\* some address of the host set of the running getPort cannot bind port p
Busy(p) == \E i \in 1..Len(HostSet) : <<p, HostSet[i]>> \in occupied

\* C4: getPort with an explicit nonzero safe port p, random not requested,
\* p bindable on every address of the host set: every probe of the call is a
\* probe of p, and the call returns p.
C4_FreeExplicitPort ==
    ( /\ op = "getPort"
      /\ userOptions.hasPort
      /\ userOptions.port # 0
      /\ isSafePort(userOptions.port)
      /\ userOptions.random # "true"
      /\ ~Busy(userOptions.port) ) =>
        /\ \A k \in 1..Len(probes) : probes[k].port = userOptions.port
        /\ Len(probes) <= Len(HostSet)
        /\ Done => result = Returned(userOptions.port)

\* C4 witness: such a call returned, although a ports list, a primary range
\* and an alternative range were given as well
C4_Witness ==
    /\ op = "getPort"
    /\ Done
    /\ userOptions.hasPort
    /\ userOptions.port = 2
    /\ userOptions.random # "true"
    /\ ~Busy(2)
    /\ Len(userOptions.ports) > 0
    /\ Len(userOptions.portRange) > 0
    /\ Len(userOptions.alternativePortRange) > 0
    /\ Len(probes) = 2
    /\ result = Returned(2)

----------------------------------------------------------------------------
(* C5 *)

\* the ports the primary stage of the running getPort probes
PrimaryCandidates ==
    LET range == CHOOSE r \in _generateRange(options.portRange, FALSE) : TRUE
        ports == PortsToCheck(options, range)
    IN  {ports[i] : i \in 1..Len(ports)}

\* the ports of the alternative range that every address can bind
FreeAlternative ==
    IF Len(options.alternativePortRange) = 0 THEN {}
    ELSE {p \in options.alternativePortRange[1]..options.alternativePortRange[2] :
            p # 0 /\ ~Busy(p)}

Lowest(S) == CHOOSE p \in S : \A q \in S : p <= q

\* C5: when the requested port and every other primary candidate is occupied
\* and the alternative range holds a free port, getPort returns the lowest
\* free port of the alternative range, and no primary candidate.
C5_LowestFreeAlternative ==
    ( /\ op = "getPort"
      /\ Done
      /\ ~DirectRandom(options)
      /\ options.port # 0
      /\ Busy(options.port)
      /\ \A p \in PrimaryCandidates : Busy(p)
      /\ FreeAlternative # {} ) =>
        /\ result = Returned(Lowest(FreeAlternative))
        /\ result.port \notin PrimaryCandidates

----------------------------------------------------------------------------
(* C6 *)

\* what C6 says of a finished or running checkPort on the host list cp.hosts
AllOrNothing ==
    /\ \A k \in 1..Len(probes) :
          /\ probes[k].host = cp.hosts[k]
          /\ ~probes[k].ok => k = Len(probes) /\ Done /\ result = ReturnedFalse
          /\ (k > 1 /\ probes[1].port = 0) => probes[k].port = probes[1].bound
    /\ (Done /\ result # ReturnedFalse) =>
          /\ result.kind = "port"
          /\ result.port \in 1..65535
          /\ Len(probes) = Len(cp.hosts)
          /\ \A k \in 1..Len(probes) :
                probes[k].ok /\ probes[k].bound = result.port

\* C6 as claimed: checkPort with a host list returns false as soon as an
\* address fails to bind, and otherwise one concrete port that was bound on
\* every address of the list in order; after a bind of port 0 the assigned
\* port is the target on all later addresses.
C6_AllOrNothingAnyList ==
    (op = "checkPort" /\ cp.list) => AllOrNothing

\* C6 amended: the same for a list that is not empty; with an empty list
\* checkPort probes nothing and returns the port it was given, 0 included.
C6_AllOrNothingNonEmpty ==
    (op = "checkPort" /\ cp.list) =>
        IF Len(cp.hosts) > 0 THEN AllOrNothing
        ELSE Done /\ probes = <<>> /\ result = Returned(cp.port)

\* C6 witness: checkPort(0, [a, b]) returned the port assigned on a after
\* binding that same port on b
C6_Witness ==
    /\ op = "checkPort"
    /\ cp.list
    /\ Done
    /\ Len(probes) = 2
    /\ probes[1].port = 0
    /\ probes[2].port = probes[1].bound
    /\ probes[2].ok
    /\ result = Returned(probes[1].bound)

----------------------------------------------------------------------------
(* C7 *)

\* timers of waitForPort started so far
Sleeps == wait.sleeps + (IF pc = "sleep" THEN 1 ELSE 0)

\* C7: the first probe of waitForPort that finds the port not bindable is
\* its last probe: the call returns at once, and it slept only between the
\* probes before it (not at all when it is the first probe).
C7_ReturnsAtFirstOccupied ==
    op = "waitForPort" =>
        /\ \A k \in 1..Len(probes) :
              ~probes[k].ok =>
                  /\ k = Len(probes)
                  /\ Done
                  /\ result = ReturnedVoid
                  /\ Sleeps = k - 1
        /\ (Done /\ result = ReturnedVoid) =>
              Len(probes) > 0 /\ ~probes[Len(probes)].ok

\* C7 witness: the port was occupied at the first probe; no sleep at all
C7_Witness ==
    /\ op = "waitForPort"
    /\ Done
    /\ result = ReturnedVoid
    /\ Len(probes) = 1
    /\ Sleeps = 0

----------------------------------------------------------------------------
(* C8 *)

\* the retry budget and the delay of the running waitForPort, from the
\* options as passed
Budget == IF wait.given[2] # 0 THEN wait.given[2] ELSE 4
Delay == IF wait.given[1] # 0 THEN wait.given[1] ELSE 500

\* C8: while every probe finds the port bindable, waitForPort probes at most
\* Budget times, each probe followed by one sleep, and ends only after
\* exactly Budget probes and Budget sleeps, with the timeout error that
\* names the port, the budget and the delay.
C8_TimeoutAfterBudget ==
    (op = "waitForPort" /\ \A k \in 1..Len(probes) : probes[k].ok) =>
        /\ Len(probes) <= Budget
        /\ Sleeps = Len(probes)
        /\ Done =>
              /\ Len(probes) = Budget
              /\ result = [Thrown("Timeout waiting for port") EXCEPT
                              !.port = wait.port, !.retries = Budget,
                              !.delay = Delay]

\* C8 witness: a call without options timed out
C8_Witness ==
    /\ op = "waitForPort"
    /\ Done
    /\ wait.given = <<0, 0>>
    /\ result.kind = "error"
    /\ Len(probes) = 4
    /\ \A k \in 1..Len(probes) : probes[k].ok

----------------------------------------------------------------------------
(* C9 *)

\* no stage of the running getPort has yielded a port
NothingYielded == \A k \in 1..Len(probes) : ~Yields(k)

\* the error of section 7 for a cascade that found nothing: it lists the
\* requested port, the primary range and the alternative range
ResolutionExhausted ==
    [Thrown("Unable to find find available port") EXCEPT
        !.tried =
            (IF options.port # 0 THEN <<(<<options.port>>)>> ELSE <<>>)
            \o (IF options.portRange # <<>> THEN <<options.portRange>> ELSE <<>>)
            \o (IF options.alternativePortRange # <<>>
                THEN <<options.alternativePortRange>> ELSE <<>>)]

\* C9: a getPort call throws only when it has ended without any stage
\* yielding a port, and whenever it ends so it throws the resolution-
\* exhausted error that lists the port and the ranges.
C9_ExhaustedError ==
    op = "getPort" =>
        /\ result.kind = "error" => Done /\ NothingYielded
        /\ (Done /\ NothingYielded) => result = ResolutionExhausted

\* the running getPort has issued the bind of port 0 of getRandomPort
RandomAttempted ==
    \E k \in 1..Len(probes) : probes[k].stage \in {"random", "direct"}

\* C9 amended: a getPort call throws only when it has ended without any
\* stage yielding a port.  If it ends so without having entered
\* getRandomPort, the caller had passed random:false and the error is the
\* resolution-exhausted error that lists the port and the ranges; if it had
\* entered getRandomPort (stage 4 or the direct path), the error is
\* getRandomPort's own, which lists nothing.
C9_ErrorKinds ==
    op = "getPort" =>
        /\ result.kind = "error" => Done /\ NothingYielded
        /\ (Done /\ NothingYielded) =>
              IF RandomAttempted
              THEN result = Thrown("Unable to find any random port")
              ELSE userOptions.random = "false" /\ result = ResolutionExhausted

\* C9 witness: both stages probed and failed, random:false, and the error
\* lists the port, the primary range and the alternative range
C9_Witness ==
    /\ op = "getPort"
    /\ Done
    /\ result = ResolutionExhausted
    /\ Len(result.tried) = 3
    /\ \E k \in 1..Len(probes) : probes[k].stage = "primary"
    /\ \E k \in 1..Len(probes) : probes[k].stage = "alternative"

----------------------------------------------------------------------------
(* C10 *)

\* C10: unless getPort took the direct random path, the random stage has
\* run by the end of the call exactly when stages 2 and 3 yielded nothing
\* and the caller did not pass random:false; with random:false no probe of
\* the call has port 0, and a call that found no candidate ends in the
\* resolution-exhausted error.
C10_RandomFallback ==
    (op = "getPort" /\ ~DirectRandom(options)) =>
        /\ Done =>
              ( (\E k \in 1..Len(probes) : probes[k].stage = "random")
                <=> ( /\ userOptions.random # "false"
                      /\ \A k \in 1..Len(probes) :
                            probes[k].stage # "random" => ~Yields(k) ) )
        /\ userOptions.random = "false" =>
              /\ \A k \in 1..Len(probes) : probes[k].port # 0
              /\ (Done /\ NothingYielded) => result = ResolutionExhausted

----------------------------------------------------------------------------
(* C11 *)

\* randomness is in effect for the running getPort: random:true, or random
\* not given and the requested port is 0
RandomInEffect ==
    \/ userOptions.random = "true"
    \/ userOptions.random = "unset" /\ userOptions.hasPort /\ userOptions.port = 0

\* C11: with randomness in effect and no primary range, getPort probes
\* nothing but the bind of port 0 and then, on the later addresses, the port
\* that bind was given; the requested port, the ports list and the
\* alternative range are never probed, and the call ends with the assigned
\* port or with getRandomPort's error.
C11_DirectRandomPath ==
    (op = "getPort" /\ RandomInEffect /\ userOptions.portRange = <<>>) =>
        /\ Len(probes) <= Len(HostSet)
        /\ \A k \in 1..Len(probes) :
              /\ probes[k].stage = "direct"
              /\ probes[k].port = IF k = 1 THEN 0 ELSE probes[1].bound
              /\ probes[k].port \in {0} \cup EphemeralPorts
        /\ Done => \/ result = Thrown("Unable to find any random port")
                   \/ /\ Len(probes) = Len(HostSet)
                      /\ result = Returned(probes[1].bound)

\* C11 witness: random:true next to a requested port, a ports list and an
\* alternative range; the call returned the assigned port after two probes
C11_Witness ==
    /\ op = "getPort"
    /\ Done
    /\ userOptions.random = "true"
    /\ userOptions.portRange = <<>>
    /\ userOptions.port = 2
    /\ Len(userOptions.ports) > 0
    /\ Len(userOptions.alternativePortRange) > 0
    /\ Len(probes) = 2
    /\ result = Returned(probes[1].bound)

----------------------------------------------------------------------------
(* C12 *)

\* the primary candidates of the running getPort as the options give them,
\* in ascending range order (a shuffle keeps the number of occurrences)
PrimarySequence ==
    LET range == IF options.portRange = <<>> THEN <<>>
                 ELSE Ascending(options.portRange[1], options.portRange[2])
        all == (IF options.random THEN <<>> ELSE <<options.port>> \o options.ports)
               \o range
    IN  SelectSeq(all, LAMBDA p : p # 0 /\ p \notin UnsafePorts)

Occurrences(seq, p) == Cardinality({i \in 1..Len(seq) : seq[i] = p})

\* the probes of stage s that asked for port p on host h
ProbesOf(s, p, h) ==
    {k \in 1..Len(probes) :
        probes[k].stage = s /\ probes[k].port = p /\ probes[k].host = h}

\* C12 as claimed: in a getPort call no (port, host) pair is probed again in
\* the stage in which a probe of it failed.
C12_NoReprobe ==
    op = "getPort" =>
        \A j, k \in 1..Len(probes) :
            ( /\ j < k
              /\ ~probes[j].ok
              /\ probes[j].stage = probes[k].stage
              /\ probes[j].port = probes[k].port )
            => probes[j].host # probes[k].host

\* C12 amended: a stage probes a (port, host) pair at most once for each
\* occurrence of the port in the stage's candidate sequence; the sequence
\* is not deduplicated, so a port that the ports list or the primary range
\* repeats is probed again after it failed.  Only the primary stage can
\* hold a port twice.
C12_OncePerOccurrence ==
    op = "getPort" =>
        \A k \in 1..Len(probes) :
            LET n == Cardinality(ProbesOf(probes[k].stage, probes[k].port,
                                          probes[k].host))
            IN  IF probes[k].stage = "primary"
                THEN n <= Occurrences(PrimarySequence, probes[k].port)
                ELSE n = 1

\* C12 witness: distinct primary candidates, two of them failed and were
\* not probed again, the third was returned
C12_Witness ==
    /\ op = "getPort"
    /\ Done
    /\ Len(PrimarySequence) = 3
    /\ \A p \in {PrimarySequence[i] : i \in 1..3} : Occurrences(PrimarySequence, p) = 1
    /\ Cardinality({k \in 1..Len(probes) : ~probes[k].ok}) = 2
    /\ result = Returned(PrimarySequence[3])

----------------------------------------------------------------------------
(* C13 *)

\* C13: in a getPort call a probe with requested port 0 is issued only by
\* the random path (stage 4 or the direct path), never for a member of the
\* candidates of the primary or the alternative stage.
C13_ZeroOnlyRandom ==
    op = "getPort" =>
        \A k \in 1..Len(probes) :
            probes[k].port = 0 => probes[k].stage \in {"random", "direct"}

----------------------------------------------------------------------------
(* C14 *)

\* the probes of stage s, in order
StageProbes(s) == SelectSeq(probes, LAMBDA r : r.stage = s)

\* the candidates stage s has begun to check, in order: one per probe of the
\* first address of the host set
Checked(s) ==
    LET first == SelectSeq(StageProbes(s), LAMBDA r : r.host = HostSet[1])
    IN  [i \in 1..Len(first) |-> first[i].port]

\* the candidate sequences stage s may have been given
StageSequences(s) ==
    IF s = "primary"
    THEN {PortsToCheck(options, r) :
            r \in _generateRange(options.portRange, options.random)}
    ELSE {AlternativePorts(options)}

\* stage s is running: one of its probes is pending
Active(s) == pc = "tryPort" /\ stage = s

\* the candidates of the running stage that no probe was issued for yet
Unprobed == IF cp.i > 1 THEN Tail(queue) ELSE queue

HostIndex(h) == CHOOSE i \in 1..Len(HostSet) : HostSet[i] = h

IsPrefix(a, b) == Len(a) <= Len(b) /\ \A i \in 1..Len(a) : a[i] = b[i]

----------------------------------------------------------------------------
(* C15 *)

\* the requested port of the running getPort (3000 when none was passed)
RequestedPort == IF userOptions.hasPort THEN userOptions.port ELSE 3000

\* the expansion of the primary range in ascending order
RangeExpansion ==
    IF userOptions.portRange = <<>> THEN <<>>
    ELSE [i \in 1..(userOptions.portRange[2] - userOptions.portRange[1] + 1)
            |-> userOptions.portRange[1] + i - 1]

Probeable(seq) == SelectSeq(seq, LAMBDA p : p # 0 /\ p \notin UnsafePorts)

\* the primary candidates of the running getPort: those probed so far and
\* those still waiting
PrimaryOrder == Checked("primary") \o (IF Active("primary") THEN Unprobed ELSE <<>>)

\* C15: what the primary stage probes is, with 0 and the unsafe ports left
\* out, the requested port, then the ports list in its order, then the
\* primary range in ascending order; with randomness in effect it is the
\* primary range alone in some order, each of its ports once.
C15_CandidateSequence ==
    op = "getPort" =>
        IF RandomInEffect
        THEN /\ \A p \in {PrimaryOrder[i] : i \in 1..Len(PrimaryOrder)} :
                   /\ Occurrences(PrimaryOrder, p) = 1
                   /\ Occurrences(Probeable(RangeExpansion), p) = 1
             /\ Active("primary") =>
                   Len(PrimaryOrder) = Len(Probeable(RangeExpansion))
        ELSE /\ IsPrefix(PrimaryOrder,
                         Probeable(<<RequestedPort>> \o userOptions.ports
                                   \o RangeExpansion))
             /\ Active("primary") =>
                   PrimaryOrder = Probeable(<<RequestedPort>> \o userOptions.ports
                                            \o RangeExpansion)

\* C15 witness: random mode with a requested port and a ports list; the
\* primary stage is about to probe the range in descending order
C15_Witness ==
    /\ op = "getPort"
    /\ RandomInEffect
    /\ userOptions.port = 2
    /\ Len(userOptions.ports) > 0
    /\ Active("primary")
    /\ probes = <<>>
    /\ queue = <<3, 2>>

----------------------------------------------------------------------------
(* C16 *)

\* the alternative range the running getPort must use
ExpectedAlternative ==
    IF userOptions.hasAlt THEN userOptions.alternativePortRange
    ELSE IF userOptions.hasPort /\ userOptions.port # 0 THEN <<>>
    ELSE <<3000, 3100>>

\* C16: the alternative range is the caller's if given, else empty when the
\* caller passed a nonzero port and 3000-3100 when not; stage 3 takes its
\* ports in ascending order from the start of the range, whatever the
\* random flag, and probes nothing when the range is empty.
C16_AlternativeRange ==
    op = "getPort" =>
        /\ options.alternativePortRange = ExpectedAlternative
        /\ \A i \in 1..Len(Checked("alternative")) :
              Checked("alternative")[i] = ExpectedAlternative[1] + i - 1
        /\ ExpectedAlternative = <<>> => StageProbes("alternative") = <<>>

\* C16 witness: random mode, no port and no alternative range passed; the
\* shuffled primary range failed and stage 3 probed 3000, then 3001
C16_Witness ==
    /\ op = "getPort"
    /\ Done
    /\ RandomInEffect
    /\ ~userOptions.hasAlt
    /\ Checked("alternative") = <<3000, 3001>>
    /\ result = Returned(3001)

----------------------------------------------------------------------------
(* C18 *)

\* the fallback message is in the log
AlternativeMessage == \E i \in 1..Len(logs) : logs[i].msg = "Using alternative port"

\* stage 3 is over and its last candidate bound on every address
AlternativeFound ==
    LET L == StageProbes("alternative")
    IN  /\ L # <<>>
        /\ ~Active("alternative")
        /\ L[Len(L)].ok
        /\ HostIndex(L[Len(L)].host) = Len(HostSet)

\* C18: in verbose mode the "using alternative port" message is in the log
\* exactly when the alternative stage has found a port
C18_AlternativeMessage ==
    (op = "getPort" /\ options.verbose) => (AlternativeMessage <=> AlternativeFound)

----------------------------------------------------------------------------
(* C19 *)

\* the awaited port is occupied now
AwaitedUp == <<wait.port, wait.host>> \in occupied

\* C19: waitForPort probes at most Budget times and never after its
\* Budget-th sleep: from that sleep on it only throws the timeout error,
\* whatever happened to the port meanwhile; it returns only when one of its
\* first Budget probes found the port occupied.
C19_NoProbeAfterFinalSleep ==
    op = "waitForPort" =>
        /\ Len(probes) <= Budget
        /\ Sleeps <= Budget
        /\ Sleeps = Budget =>
              /\ pc \in {"sleep", "done"}
              /\ Len(probes) = Budget
              /\ Done => result.kind = "error" /\ result.error = "Timeout waiting for port"
        /\ (Done /\ result = ReturnedVoid) =>
              \E k \in 1..Budget : k <= Len(probes) /\ ~probes[k].ok

\* C19 witness: every probe bound the port, the port was taken during the
\* last sleep, and the call timed out
C19_Witness ==
    /\ op = "waitForPort"
    /\ Done
    /\ Budget = 2
    /\ Len(probes) = 2
    /\ \A k \in 1..Len(probes) : probes[k].ok
    /\ envChanges = 1
    /\ AwaitedUp
    /\ result.kind = "error"

----------------------------------------------------------------------------
(* C20 *)

\* the number of ports in the inclusive range [a, b]
RangeSize(range) ==
    IF range = <<>> \/ range[2] < range[1] THEN 0 ELSE range[2] - range[1] + 1

\* the number of candidates of the primary stage, from the options as passed
PrimaryCount ==
    IF RandomInEffect THEN Len(Probeable(RangeExpansion))
    ELSE Len(Probeable(<<RequestedPort>> \o userOptions.ports \o RangeExpansion))

\* the most candidate checks a getPort call may make
CheckBound == PrimaryCount + RangeSize(ExpectedAlternative) + 1

\* the candidate checks the running getPort has begun
Checks ==
    Len(Checked("primary")) + Len(Checked("alternative"))
        + Len(Checked("random")) + Len(Checked("direct"))

\* C20: a getPort call begins at most (primary candidates + size of the
\* alternative range + 1) candidate checks, each with at most one probe per
\* address of the host set; while it has no outcome a probe is pending and
\* can answer, every answer adds one probe, and once it has its outcome (a
\* port or an error) nothing changes any more: it ends after a bounded
\* number of probes with exactly one outcome.
C20_BoundedTermination ==
    /\ [](op = "getPort" =>
            /\ Checks <= CheckBound
            /\ Len(probes) <= Checks * Len(HostSet)
            /\ Done <=> result.kind \in {"port", "error"}
            /\ ~Done => result = Pending /\ ENABLED (GetPortFindStep \/ GetPortRandomStep))
    /\ [][op = "getPort" => ~Done /\ Len(probes') = Len(probes) + 1]_vars

\* C20 witness: a call that used the whole bound: every primary and every
\* alternative candidate was checked, then the random port was asked for
C20_Witness ==
    /\ op = "getPort"
    /\ Done
    /\ PrimaryCount >= 2
    /\ RangeSize(ExpectedAlternative) = 2
    /\ Checks = CheckBound
    /\ Len(HostSet) = 2
    /\ result.kind = "port"

----------------------------------------------------------------------------
(* C17 *)

\* what a getPort call returns or throws when it runs alone from the frame
\* c against the occupancy of the other programs
RECURSIVE RunAlone(_, _, _)
RunAlone(c, o, u) ==
    IF c.pc = "done" THEN {c.result}
    ELSE UNION {RunAlone(Continue(c, o, u, r), o, u) :
                  r \in _tryPort(c.cp.port, c.cp.hosts[c.cp.i])}

\* the outcomes invocation i can have when no other invocation runs
AloneOutcomes(i) ==
    UNION {RunAlone(NewCall(calls[i].userOptions, range).cfg,
                    calls[i].options, calls[i].userOptions) :
             range \in _generateRange(calls[i].options.portRange,
                                      calls[i].options.random)}

\* C17: whatever the interleaving of two concurrent getPort calls, each one
\* ends with an outcome it can have when it runs alone against the same
\* occupancy.
C17_Isolation ==
    \A i \in DOMAIN calls :
        calls[i].cfg.pc = "done" => calls[i].cfg.result \in AloneOutcomes(i)

====
